---------------------------- MODULE Spec2Model ----------------------------
(***************************************************************************)
(* Model of the router workflow of RAG-SQL-Router (src/workflow.py) and of *)
(* its two callers, process_query (src/app.py) and run_query.              *)
(*                                                                         *)
(* One workflow object is modelled: its chat_history, the events that are  *)
(* queued between its steps, the tool calls in flight, the buffer of       *)
(* collect_events and the outcome of run().  The reasoning client and the  *)
(* tool adapters are the environment: what they return is drawn from small *)
(* sets, or computed by a deterministic policy fixed at construction.      *)
(***************************************************************************)
EXTENDS Integers, Sequences, FiniteSets, TLC

VARIABLES
    chat_history,    \* self.chat_history: sequence of messages
    pc,              \* idle, the event queued or awaited in a run, or done
    entry,           \* who touched the workflow last: run, process_query, run_query, reset
    message,         \* the message of the StartEvent (NoMessage when absent)
    ev_tool_calls,   \* tool_calls carried by the queued GatherToolsEvent
    num_tool_calls,  \* ctx "num_tool_calls"
    tool_events,     \* queue of ToolCallEvent not yet taken by call_tool
    in_flight,       \* requests whose adapter call is awaited
    result_events,   \* queue of ToolCallEventResult not yet taken by gather
    collected,       \* buffer of ctx.collect_events
    outcome,         \* how the last run() ended: returned text or raised
    caller_result,   \* what process_query / run_query handed back
    env,             \* behaviour of the reasoning client and of the tools
    start_history,   \* chat_history when process_query looked at its length
    run_history,     \* chat_history when run() was called
    invoked,         \* per tool: adapter invocations during the current run
    llm_calls,       \* reasoning calls made on this workflow object
    tool_requests,   \* tool requests issued on this workflow object
    rounds,          \* tool rounds folded during the current run
    replies,         \* what the reasoning client did in the current run, in order
    adapter_log,     \* what each adapter call of the current round did
    previous,        \* during a run_query: the run_query just before it, if it returned
    produced,        \* call ids of the current round, in the order their results came
    self_llm,        \* self.llm
    ctor             \* what the constructor was given, and the error it raised

vars == <<chat_history, pc, entry, message, ev_tool_calls, num_tool_calls,
          tool_events, in_flight, result_events, collected, outcome,
          caller_result, env, start_history, run_history, invoked,
          llm_calls, tool_requests, rounds, replies, adapter_log, previous,
          produced, self_llm, ctor>>

-----------------------------------------------------------------------------
(* Bounds of the model *)

\* reasoning calls per workflow object, with any reasoning client
MaxLLMCalls == 3
\* reasoning calls per workflow object, with a deterministic reasoning client
MaxDetLLMCalls == 4
\* tool requests in one reasoning response
MaxCalls == 2
\* tool requests per workflow object
MaxToolCalls == 2

(* Program constants *)

\* src/app.py:128  len(workflow.chat_history) > 20
TruncateThreshold == 20

-----------------------------------------------------------------------------
(* Values.  A text is a tuple of strings, so that an f-string is the tuple   *)
(* of its pieces and str(None)-handling, prefixes and verbatim copies differ. *)

NoMessage == <<"<no message>">>
Queries == IF env.det THEN {<<"q1">>, <<"q2">>} ELSE {<<"q1">>}
Answers == {<<"a1">>}
Catalog == {"sql_tool", "document_tool"}
ToolNames == Catalog \cup {"unknown_tool"}
NoOutput == <<"<None>">>
Outputs == {<<"rows">>, NoOutput}
Kwargs == "input"

ApologyChat ==
    <<"I encountered an issue processing your request. Please try rephrasing your question.">>
CancelledChat == <<"The operation was cancelled. Please try again.">>
ApologyGather ==
    <<"I encountered an issue processing the tool responses. Please try again.">>
CancelledTool == <<"Tool execution was cancelled">>
TimedOutText == <<"Query timed out. Please try a simpler question.">>

\* exceptions, with their str()
MessageRequired == [exc |-> "ValueError", text |-> "'message' field is required."]
WorkflowTimeout == [exc |-> "WorkflowTimeoutError", text |-> "Operation timed out"]
AdapterFailure == [exc |-> "Exception", text |-> "adapter failed"]
UnknownTool(name) == [exc |-> "KeyError", text |-> name]
LLMRequired ==
    [exc |-> "ValueError",
     text |-> "No LLM provided and Settings.llm is not initialized"]

\* reasoning clients: none, the llm argument, Settings.llm
NoLLM == "None"
ArgumentLLM == "llm"
SettingsLLM == "Settings.llm"

SystemMsg ==
    [role |-> "system", content |-> <<"tool-selection guidelines">>,
     tool_calls |-> <<>>, tool_call_id |-> 0, name |-> "none"]

\* a system message of the caller's own, handed in with chat_history
CustomSystemMsg ==
    [role |-> "system", content |-> <<"custom system prompt">>,
     tool_calls |-> <<>>, tool_call_id |-> 0, name |-> "none"]

UserMsg(q) ==
    [role |-> "user", content |-> q,
     tool_calls |-> <<>>, tool_call_id |-> 0, name |-> "none"]

AssistantMsg(content, calls) ==
    [role |-> "assistant", content |-> content,
     tool_calls |-> calls, tool_call_id |-> 0, name |-> "none"]

\* a tool message that does not say which request it answers
ToolMsgNoCallId(call, content) ==
    [role |-> "tool", content |-> content,
     tool_calls |-> <<>>, tool_call_id |-> 0, name |-> call.tool_name]

ToolMsg(call, content) ==
    [role |-> "tool", content |-> content,
     tool_calls |-> <<>>, tool_call_id |-> call.tool_id, name |-> call.tool_name]

NoOutcome == [kind |-> "none", value |-> <<>>]
Returned(text) == [kind |-> "returned", value |-> text]
Raised(e) == [kind |-> "raised", value |-> <<e.exc, e.text>>]

-----------------------------------------------------------------------------
(* The reasoning client and the tool adapters *)

RECURSIVE CountRole(_, _)
CountRole(h, r) ==
    IF h = <<>> THEN 0
    ELSE CountRole(Tail(h), r) + (IF Head(h).role = r THEN 1 ELSE 0)

RECURSIVE LastUser(_)
LastUser(h) ==
    IF h = <<>> THEN NoMessage
    ELSE IF h[Len(h)].role = "user" THEN h[Len(h)].content
    ELSE LastUser(SubSeq(h, 1, Len(h) - 1))

\* the requests of one response: call ids are unique within the history
Requests(h, names) ==
    [i \in 1..Len(names) |->
        [tool_id |-> (MaxCalls + 1) * Len(h) + i,
         tool_name |-> names[i],
         tool_kwargs |-> Kwargs]]

\* the request lists a response may carry
NameSeqs == UNION {[1..n -> ToolNames] : n \in 1..MaxCalls}

Reply(kind, content, calls) ==
    [kind |-> kind, content |-> content, tool_calls |-> calls]

\* the content of a response whose tool requests do not parse
MalformedContent == <<"calling a tool">>

\* what achat_with_tools / get_tool_calls_from_response may do on history h:
\* a message, an error or a cancellation of the call, or a response that
\* get_tool_calls_from_response raises on
FreeReplies(h) ==
    {Reply("message", a, <<>>) : a \in Answers}
    \cup {Reply("raises", <<>>, <<>>), Reply("cancelled", <<>>, <<>>),
          Reply("malformed", MalformedContent, <<>>)}
    \cup {Reply("message", <<>>, Requests(h, ns)) : ns \in NameSeqs}

\* a deterministic reasoning client: asks for p.tool until the history holds
\* p.k tool messages, then answers from the last query and the history it saw
Decide(p, h) ==
    IF CountRole(h, "tool") < p.k
    THEN Reply("message", <<>>, Requests(h, <<p.tool>>))
    ELSE Reply("message",
               <<"answer to ">> \o LastUser(h) \o <<" from ", ToString(Len(h))>>,
               <<>>)

\* a call on a missing client raises AttributeError
Replies(h) ==
    IF self_llm = NoLLM THEN {Reply("raises", <<>>, <<>>)}
    ELSE IF env.det THEN {Decide(env.llm, h)}
    ELSE FreeReplies(h)

\* the reasoning calls the model follows on one workflow object
LLMBudget == IF env.det THEN MaxDetLLMCalls ELSE MaxLLMCalls

\* the model follows a reply with tool requests only while another reasoning
\* call and the requests fit its bounds
WithinBounds(reply) ==
    \/ reply.tool_calls = <<>>
    \/ /\ llm_calls < LLMBudget
       /\ tool_requests + Len(reply.tool_calls) <= MaxToolCalls

ToolOutcome(kind, output) == [kind |-> kind, output |-> output]

AllToolOutcomes ==
    {ToolOutcome("ok", o) : o \in Outputs}
    \cup {ToolOutcome("raises", NoOutput), ToolOutcome("cancelled", NoOutput)}

\* adapters that answer or fail from call to call; how a failing call fails
\* (it raises, or it is cancelled) is the same throughout one session
FreeToolOutcomes ==
    {ToolOutcome("ok", o) : o \in Outputs \ {NoOutput}}
    \cup {ToolOutcome(env.fault, NoOutput)}

ToolOutcomes(call) ==
    IF env.det THEN {env.tools[call.tool_name]} ELSE FreeToolOutcomes

FreeEnvs ==
    [det : {FALSE},
     llm : {[tool |-> "sql_tool", k |-> 0]},
     tools : {[t \in Catalog |-> ToolOutcome("ok", NoOutput)]},
     fault : {"raises", "cancelled"}]

\* a reasoning client and adapters that are functions of what they are given;
\* the adapter the client never asks for answers
DetEnvs ==
    {e \in [det : {TRUE},
            llm : [tool : ToolNames, k : 0..MaxToolCalls],
            tools : [Catalog -> AllToolOutcomes],
            fault : {"raises"}] :
        \A t \in Catalog \ {e.llm.tool} : e.tools[t] = ToolOutcome("ok", <<"rows">>)}

\* a reasoning client that asks for a tool in every round the model follows,
\* with adapters that answer, raise or are cancelled, and so always complete
GreedyEnvs ==
    {e \in [det : {TRUE},
            llm : [tool : ToolNames, k : {MaxToolCalls + 1}],
            tools : [Catalog -> AllToolOutcomes],
            fault : {"raises"}] :
        \A t \in Catalog \ {e.llm.tool} : e.tools[t] = ToolOutcome("ok", <<"rows">>)}

-----------------------------------------------------------------------------
(* The code of the workflow and of its callers, as operators *)

\* a constructor that falls back to a client of its own
SelectLLMDefault(given, settings) ==
    IF given # NoLLM THEN given
    ELSE IF settings # NoLLM THEN settings
    ELSE "default"

\* __init__: llm or Settings.llm
SelectLLM(given, settings) == IF given # NoLLM THEN given ELSE settings

Given(given, settings, error) ==
    [llm |-> given, settings |-> settings, error |-> error]

NotConstructed == Given(NoLLM, NoLLM, NoOutcome)

\* reset that forgets to clear
ResetKeeps(h) == h

\* RouterOutputAgentWorkflow.reset
Reset(h) == <<>>

\* truncation that keeps the latest exchange instead of the system message
TruncateKeepsLatest(h) ==
    IF Len(h) > TruncateThreshold THEN SubSeq(h, Len(h) - 1, Len(h)) ELSE h

\* truncation that already cuts a history of exactly the threshold
TruncateFromThreshold(h) ==
    IF Len(h) >= TruncateThreshold
    THEN (IF h # <<>> /\ h[1].role = "system" THEN <<h[1]>> ELSE <<>>)
    ELSE h

\* process_query: keep only the leading system message of a long history
Truncate(h) ==
    IF Len(h) > TruncateThreshold
    THEN (IF h # <<>> /\ h[1].role = "system" THEN <<h[1]>> ELSE <<>>)
    ELSE h

\* a preparation that starts every turn from a history of its own
PrepareFromScratch(h, msg) == <<SystemMsg, UserMsg(msg)>>

\* a preparation that opens every turn with the system message
PrepareSystemEveryTurn(h, msg) == Append(Append(h, SystemMsg), UserMsg(msg))

\* prepare_chat: system message into an empty history, then the user message
Prepare(h, msg) ==
    Append(IF h = <<>> THEN Append(h, SystemMsg) ELSE h, UserMsg(msg))

\* chat: the message appended for a response
AiMessage(reply) == AssistantMsg(reply.content, reply.tool_calls)

\* a reasoning step that stops after the first tool round, whatever is asked
StopsAfterARound(reply) == reply.tool_calls = <<>> \/ rounds >= 1

\* chat: if not tool_calls, the run stops; nothing else is looked at
Stops(reply) == reply.tool_calls = <<>>

\* a stop that returns str(ai_message) instead of its content
StopResultWhole(ai_message) == <<"assistant: ">> \o ai_message.content

\* chat: StopEvent(result=ai_message.content)
StopResult(ai_message) == ai_message.content

\* a failure path that hands out the raw error text
ChatFailureRaw(reply) == <<"Error during chat: ", "reasoning failed">>

\* chat: the result of the failure paths
ChatFailure(reply) ==
    IF reply.kind = "cancelled" THEN CancelledChat ELSE ApologyChat

\* call_tool: str(output) if output is not None else ""
ToolContent(output) == IF output = NoOutput THEN <<>> ELSE output

\* an error result that loses the error text
ErrorContentEmpty(call, e) == <<>>

\* call_tool: f"Error executing {tool_call.tool_name}: {str(e)}"
ErrorContent(call, e) == <<"Error executing ", call.tool_name, ": ", e.text>>

\* a call_tool without the branch for CancelledError: the cancellation is
\* reported like any other error
ToolResultNoCancelBranch(call, o) ==
    IF o.kind = "ok" THEN ToolMsg(call, ToolContent(o.output))
    ELSE ToolMsg(call, ErrorContent(call, AdapterFailure))

\* call_tool: the message of the ToolCallEventResult, in its three outcomes
ToolResult(call, o) ==
    CASE o.kind = "ok" -> ToolMsg(call, ToolContent(o.output))
      [] o.kind = "cancelled" -> ToolMsg(call, CancelledTool)
      [] OTHER -> ToolMsg(call, ErrorContent(call, AdapterFailure))

\* a collect_events that hands over whatever has arrived
CollectEventsEach(buf, n) == buf

\* a collection that waits for one result more than were requested
CollectEventsOneMore(buf, n) == IF Len(buf) > n THEN SubSeq(buf, 1, n) ELSE <<>>

\* gather: ctx.collect_events(ev, [ToolCallEventResult] * n) on the buffer that
\* already holds ev; <<>> stands for None
CollectEvents(buf, n) == IF Len(buf) >= n THEN SubSeq(buf, 1, n) ELSE <<>>

\* a pending count that ignores how many requests came
PendingCountOne(calls) == 1

\* dispatch_calls: the value stored under "num_tool_calls"
PendingCount(calls) == Len(calls)

\* a dispatch that sends the first request once more
DispatchedFirstAgain(calls) == Append(calls, calls[1])

\* dispatch_calls: one ToolCallEvent per request, in the order of the response
Dispatched(calls) == calls

\* a tools_dict that holds an adapter under every name
KnownAny(name) == TRUE

\* call_tool: self.tools_dict[tool_call.tool_name]; a missing key raises KeyError
Known(name) == name \in Catalog

\* a lookup that always finds the first tool
LookupFirst(name) == "sql_tool"

\* call_tool: the adapter found under the name
Lookup(name) == name

\* a failing call that takes the other calls in flight with it
RemainingNoneAfterRaise(flight, call, o) ==
    IF o.kind = "raises" THEN {} ELSE flight \ {call}

\* call_tool: the end of one call touches no other call in flight
Remaining(flight, call, o) == flight \ {call}

\* tool messages put back into the order of their requests
RECURSIVE InRequestOrder(_)
InRequestOrder(msgs) ==
    IF msgs = <<>> THEN <<>>
    ELSE LET m == CHOOSE i \in 1..Len(msgs) :
                     \A j \in 1..Len(msgs) :
                        msgs[i].tool_call_id <= msgs[j].tool_call_id
         IN  <<msgs[m]>>
             \o InRequestOrder(SubSeq(msgs, 1, m - 1) \o SubSeq(msgs, m + 1, Len(msgs)))

\* a fold in the order of the requests
FoldRequestOrder(h, tool_msgs) == h \o InRequestOrder(tool_msgs)

\* a fold that appends nothing
FoldNothing(h, tool_msgs) == h

\* gather: append every collected tool message, in the order collected
Fold(h, tool_msgs) == h \o tool_msgs

\* a failure of the reasoning call that escapes the step
ChatOutcomeRaises(reply) == Raised([exc |-> "Exception", text |-> "reasoning failed"])

\* chat: both except branches end the run with a StopEvent
ChatOutcome(reply) == Returned(ChatFailure(reply))

\* a run_query without its handler: what run() raises goes on to the caller
CallerResultUnhandled(who, outc) ==
    IF outc.kind = "returned" \/ who \in {"run", "run_query"} THEN outc
    ELSE IF outc.value[1] = "TimeoutError" THEN Returned(TimedOutText)
    ELSE Returned(<<"Error processing query: ", outc.value[2]>>)

\* a caller whose handler of the timeout comes after the general handler
CallerResultGeneralFirst(who, outc) ==
    IF outc.kind = "returned" THEN outc
    ELSE IF who = "run" THEN outc
    ELSE IF who = "run_query" THEN Returned(<<"Error running query: ", outc.value[2]>>)
    ELSE Returned(<<"Error processing query: ", outc.value[2]>>)

\* run_query / process_query: what the caller hands back for an outcome of run()
CallerResult(who, outc) ==
    CASE who = "run" -> outc
      [] who = "run_query" ->
            IF outc.kind = "returned" THEN outc
            ELSE Returned(<<"Error running query: ", outc.value[2]>>)
      [] OTHER ->
            IF outc.kind = "returned" THEN outc
            ELSE IF outc.value[1] = "TimeoutError" THEN Returned(TimedOutText)
            ELSE Returned(<<"Error processing query: ", outc.value[2]>>)

CallerTimeout == [exc |-> "TimeoutError", text |-> ""]

\* the timeouts that can end a run: the workflow's own, and wait_for's
Timeouts(who) ==
    {WorkflowTimeout} \cup (IF who = "process_query" THEN {CallerTimeout} ELSE {})

Running == pc \notin {"new", "failed", "idle", "done"}

NoPrevious == [message |-> NoMessage, result |-> NoOutcome]

-----------------------------------------------------------------------------
(* Actions *)

ctx == <<ev_tool_calls, num_tool_calls, tool_events, in_flight, result_events,
         collected>>

turn == <<entry, message, start_history, run_history>>

\* the object as constructed, and what it talks to
world == <<env, self_llm, ctor>>

\* a caller enters with history h already adjusted and calls run(message=msg)
StartRun(who, msg, h) ==
    /\ pc \in {"idle", "done"}
    /\ llm_calls < LLMBudget
    /\ entry' = who
    /\ message' = msg
    /\ start_history' = IF who = "process_query" THEN chat_history ELSE h
    /\ chat_history' = h
    /\ run_history' = h
    /\ pc' = "start"
    /\ outcome' = NoOutcome
    /\ caller_result' = NoOutcome
    /\ invoked' = [t \in Catalog |-> 0]
    /\ rounds' = 0
    /\ replies' = <<>>
    /\ adapter_log' = {}
    /\ produced' = <<>>
    /\ previous' = IF who = "run_query" /\ entry = "run_query"
                       /\ outcome.kind = "returned"
                    THEN [message |-> message, result |-> caller_result]
                    ELSE NoPrevious
    /\ UNCHANGED <<ctx, world, llm_calls, tool_requests>>

\* the run ends: run() returns or raises, the context of the run is dropped
Finish(outc) ==
    /\ pc' = "done"
    /\ outcome' = outc
    /\ caller_result' = CallerResult(entry, outc)
    /\ ev_tool_calls' = <<>>
    /\ num_tool_calls' = 0
    /\ tool_events' = <<>>
    /\ in_flight' = {}
    /\ result_events' = <<>>
    /\ collected' = <<>>

\* __init__ with llm = given while Settings.llm is settings: the object, or
\* the ValueError that leaves the caller without one
Construct(given, settings) ==
    /\ pc = "new"
    /\ LET llm == SelectLLM(given, settings) IN
          IF llm = NoLLM
          THEN /\ pc' = "failed"
               /\ self_llm' = NoLLM
               /\ ctor' = Given(given, settings, Raised(LLMRequired))
          ELSE /\ pc' = "idle"
               /\ self_llm' = llm
               /\ ctor' = Given(given, settings, NoOutcome)
    /\ UNCHANGED <<chat_history, turn, ctx, outcome, caller_result, env,
                   invoked, llm_calls, tool_requests, rounds, replies,
                   adapter_log, produced, previous>>

RouterOutputAgentWorkflow ==
    \E given \in {NoLLM, ArgumentLLM}, settings \in {NoLLM, SettingsLLM} :
       Construct(given, settings)

\* create_workflow passes no llm and raises what the constructor raises
create_workflow ==
    \E settings \in {NoLLM, SettingsLLM} : Construct(NoLLM, settings)

run ==
    \E msg \in Queries \cup {NoMessage} : StartRun("run", msg, chat_history)

process_query ==
    \E q \in Queries : StartRun("process_query", q, Truncate(chat_history))

run_query ==
    \E q \in Queries : StartRun("run_query", q, Reset(chat_history))

reset ==
    /\ pc \in {"idle", "done"}
    /\ chat_history' = Reset(chat_history)
    /\ pc' = "idle"
    /\ entry' = "reset"
    /\ UNCHANGED <<message, start_history, run_history, ctx, outcome,
                   caller_result, world, invoked, llm_calls, tool_requests,
                   rounds, replies, adapter_log, produced, previous>>

prepare_chat ==
    /\ pc = "start"
    /\ IF message = NoMessage
       THEN /\ Finish(Raised(MessageRequired))
            /\ UNCHANGED chat_history
       ELSE /\ chat_history' = Prepare(chat_history, message)
            /\ pc' = "input"
            /\ UNCHANGED <<ctx, outcome, caller_result>>
    /\ UNCHANGED <<turn, world, invoked, llm_calls, tool_requests, rounds,
                   replies, adapter_log, produced, previous>>

\* chat takes the InputEvent and awaits achat_with_tools
chat_call ==
    /\ pc = "input"
    /\ pc' = "reasoning"
    /\ llm_calls' = llm_calls + 1
    /\ UNCHANGED <<chat_history, turn, ctx, outcome, caller_result, world,
                   invoked, tool_requests, rounds, replies, adapter_log, produced,
                   previous>>

\* chat from the return of achat_with_tools to the event it returns
chat ==
    /\ pc = "reasoning"
    /\ \E reply \in Replies(chat_history) :
          /\ WithinBounds(reply)
          /\ replies' = Append(replies, reply)
          /\ tool_requests' = tool_requests + Len(reply.tool_calls)
          /\ IF reply.kind = "message"
             THEN /\ chat_history' = Append(chat_history, AiMessage(reply))
                  /\ IF Stops(reply)
                     THEN Finish(Returned(StopResult(AiMessage(reply))))
                     ELSE /\ pc' = "gather_tools"
                          /\ ev_tool_calls' = reply.tool_calls
                          /\ UNCHANGED <<num_tool_calls, tool_events,
                                         in_flight, result_events, collected,
                                         outcome, caller_result>>
             ELSE /\ Finish(ChatOutcome(reply))
                  /\ UNCHANGED chat_history
    /\ UNCHANGED <<turn, world, invoked, llm_calls, rounds, adapter_log, produced,
                   previous>>

dispatch_calls ==
    /\ pc = "gather_tools"
    /\ num_tool_calls' = PendingCount(ev_tool_calls)
    /\ tool_events' = Dispatched(ev_tool_calls)
    /\ ev_tool_calls' = <<>>
    /\ pc' = "tools"
    /\ adapter_log' = {}
    /\ produced' = <<>>
    /\ UNCHANGED <<chat_history, turn, in_flight, result_events, collected,
                   outcome, caller_result, world, invoked, llm_calls,
                   tool_requests, rounds, replies, previous>>

\* call_tool takes a ToolCallEvent: looks the tool up and awaits tool.acall
call_tool_start ==
    /\ pc = "tools"
    /\ tool_events # <<>>
    /\ LET call == Head(tool_events) IN
          /\ tool_events' = Tail(tool_events)
          /\ IF Known(call.tool_name)
             THEN /\ invoked' = [invoked EXCEPT ![Lookup(call.tool_name)] = @ + 1]
                  /\ in_flight' = in_flight \cup {call}
                  /\ UNCHANGED <<result_events, produced>>
             ELSE /\ result_events' =
                        Append(result_events,
                               ToolMsg(call, ErrorContent(call, UnknownTool(call.tool_name))))
                  /\ produced' = Append(produced, call.tool_id)
                  /\ UNCHANGED <<invoked, in_flight>>
    /\ UNCHANGED <<chat_history, pc, turn, ev_tool_calls, num_tool_calls,
                   collected, outcome, caller_result, world, llm_calls,
                   tool_requests, rounds, replies, adapter_log, previous>>

\* call_tool from the end of tool.acall to the ToolCallEventResult
call_tool ==
    /\ pc = "tools"
    /\ \E call \in in_flight : \E o \in ToolOutcomes(call) :
          /\ in_flight' = Remaining(in_flight, call, o)
          /\ adapter_log' = adapter_log \cup {[call |-> call, outcome |-> o]}
          /\ produced' = Append(produced, call.tool_id)
          /\ result_events' = Append(result_events, ToolResult(call, o))
    /\ UNCHANGED <<chat_history, pc, turn, ev_tool_calls, num_tool_calls,
                   tool_events, collected, outcome, caller_result, world,
                   invoked, llm_calls, tool_requests, rounds, replies,
                   previous>>

gather ==
    /\ pc = "tools"
    /\ result_events # <<>>
    /\ LET buf == Append(collected, Head(result_events))
           tool_msgs == CollectEvents(buf, num_tool_calls)
       IN  /\ result_events' = Tail(result_events)
           /\ IF tool_msgs = <<>>
              THEN /\ collected' = buf
                   /\ UNCHANGED <<chat_history, pc, rounds>>
              ELSE /\ collected' = SubSeq(buf, Len(tool_msgs) + 1, Len(buf))
                   /\ chat_history' = Fold(chat_history, tool_msgs)
                   /\ pc' = "input"
                   /\ rounds' = rounds + 1
    /\ UNCHANGED <<turn, ev_tool_calls, num_tool_calls, tool_events,
                   in_flight, outcome, caller_result, world, invoked, llm_calls,
                   tool_requests, replies, adapter_log, produced, previous>>

\* a timeout fires where time passes: while the run awaits the reasoning
\* client, its tool calls or the results that gather still misses
timeout ==
    /\ pc \in {"reasoning", "tools"}
    /\ \E e \in Timeouts(entry) : Finish(Raised(e))
    /\ UNCHANGED <<chat_history, turn, world, invoked, llm_calls, tool_requests,
                   rounds, replies, adapter_log, produced, previous>>

-----------------------------------------------------------------------------
(* Specifications *)

\* the fields of a workflow whose chat_history is h, before any run
Fresh(h, e) ==
    /\ chat_history = h
    /\ entry = "none"
    /\ message = NoMessage
    /\ ev_tool_calls = <<>>
    /\ num_tool_calls = 0
    /\ tool_events = <<>>
    /\ in_flight = {}
    /\ result_events = <<>>
    /\ collected = <<>>
    /\ outcome = NoOutcome
    /\ caller_result = NoOutcome
    /\ env = e
    /\ start_history = h
    /\ run_history = h
    /\ invoked = [t \in Catalog |-> 0]
    /\ llm_calls = 0
    /\ tool_requests = 0
    /\ rounds = 0
    /\ replies = <<>>
    /\ adapter_log = {}
    /\ produced = <<>>
    /\ previous = NoPrevious

\* a workflow constructed as the application does, the client taken from
\* Settings.llm
InitWith(h, e) ==
    /\ Fresh(h, e)
    /\ pc = "idle"
    /\ self_llm = SelectLLM(NoLLM, SettingsLLM)
    /\ ctor = Given(NoLLM, SettingsLLM, NoOutcome)

\* a workflow constructed without chat_history, any reasoning client and tools
Init == \E e \in FreeEnvs : InitWith(<<>>, e)

\* the steps of the workflow and what ends a run from outside
Steps ==
    \/ prepare_chat
    \/ chat_call
    \/ chat
    \/ dispatch_calls
    \/ call_tool_start
    \/ call_tool
    \/ gather
    \/ timeout

\* the workflow driven through run() and reset()
NextRun ==
    \/ run
    \/ reset
    \/ Steps

Spec == Init /\ [][NextRun]_vars

\* the workflow driven through run(), reset() and the two callers
Next ==
    \/ run
    \/ process_query
    \/ run_query
    \/ reset
    \/ Steps

\* a conversation of n messages handed to the constructor as chat_history
RECURSIVE Conversation(_)
Conversation(n) ==
    IF n = 0 THEN <<>>
    ELSE Append(Conversation(n - 1),
                IF n % 2 = 1 THEN UserMsg(<<"q1">>)
                ELSE AssistantMsg(<<"a1">>, <<>>))

\* histories at and just above the truncation threshold, with and without a
\* leading system message
LongHistories ==
    LET lens == TruncateThreshold..(TruncateThreshold + 1) IN
    {Conversation(n) : n \in lens}
    \cup {<<CustomSystemMsg>> \o Conversation(n - 1) : n \in lens}

\* deterministic reasoning client and tools, a workflow constructed without
\* chat_history
InitDet == \E e \in DetEnvs : InitWith(<<>>, e)

SpecDet == InitDet /\ [][Next]_vars

\* a workflow constructed with a long chat_history; the reasoning client asks
\* for sql_tool, which answers
InitLong ==
    \E h \in LongHistories :
       \E e \in {d \in DetEnvs : /\ d.llm.tool = "sql_tool"
                                 /\ d.tools["sql_tool"] = ToolOutcome("ok", <<"rows">>)} :
          InitWith(h, e)

SpecLong == InitLong /\ [][Next]_vars

\* the scheduler runs every step whose event is queued, every reasoning call
\* and every tool call comes back; no timer is bound to run out
Fairness ==
    /\ WF_vars(prepare_chat)
    /\ WF_vars(chat_call)
    /\ WF_vars(chat)
    /\ WF_vars(dispatch_calls)
    /\ WF_vars(call_tool_start)
    /\ WF_vars(call_tool)
    /\ WF_vars(gather)

\* one turn after another on a workflow that has made no reasoning call yet
NextFair ==
    \/ run /\ llm_calls = 0
    \/ Steps

SpecFair == Init /\ [][NextFair]_vars /\ Fairness

\* a reasoning client that answers every query at once
DirectEnv ==
    [det |-> TRUE,
     llm |-> [tool |-> "sql_tool", k |-> 0],
     tools |-> [t \in Catalog |-> ToolOutcome("ok", <<"rows">>)],
     fault |-> "raises"]

\* the history of a workflow constructed without chat_history after n turns
\* that the reasoning client of e answered at once
RECURSIVE DirectTurns(_, _)
DirectTurns(e, n) ==
    IF n = 0 THEN <<>>
    ELSE LET h == Prepare(DirectTurns(e, n - 1), <<"q1">>)
         IN  Append(h, AiMessage(Decide(e.llm, h)))

\* sessions on a workflow constructed without chat_history: at their start,
\* or so many answered turns later that the history is one turn below the
\* truncation threshold or one message above it
InitSession ==
    \/ InitDet
    \/ \E n \in {TruncateThreshold \div 2 - 1, TruncateThreshold \div 2} :
          InitWith(DirectTurns(DirectEnv, n), DirectEnv)

SpecSession == InitSession /\ [][Next]_vars

\* a session of the application: every turn goes through process_query
NextQueries ==
    \/ process_query
    \/ Steps

SpecQueries == InitDet /\ [][NextQueries]_vars

\* a workflow constructed without chat_history, its reasoning client never
\* done asking for tools
InitLoop == \E e \in GreedyEnvs : InitWith(<<>>, e)

SpecLoop == InitLoop /\ [][NextFair]_vars

\* no workflow yet: the constructor is still to be called
InitNew ==
    \E e \in FreeEnvs :
       /\ Fresh(<<>>, e)
       /\ pc = "new"
       /\ self_llm = NoLLM
       /\ ctor = NotConstructed

NextNew ==
    \/ RouterOutputAgentWorkflow
    \/ create_workflow
    \/ NextFair

SpecNew == InitNew /\ [][NextNew]_vars

-----------------------------------------------------------------------------
(* Vocabulary of the properties *)

LastReply == replies[Len(replies)]

Direct(reply) == reply.kind = "message" /\ reply.tool_calls = <<>>

\* the history a turn leaves before its first reasoning call
Prepared ==
    (IF run_history = <<>> THEN <<SystemMsg>> ELSE run_history)
        \o <<UserMsg(message)>>

\* the last n messages of h
LastN(h, n) == SubSeq(h, Len(h) - n + 1, Len(h))

\* msgs are tool messages answering the requests calls, one each, in any order
AnswersTo(calls, msgs) ==
    /\ Len(msgs) = Len(calls)
    /\ \A i \in 1..Len(msgs) : msgs[i].role = "tool"
    /\ \A c \in 1..Len(calls) :
          Cardinality({i \in 1..Len(msgs) :
                          /\ msgs[i].tool_call_id = calls[c].tool_id
                          /\ msgs[i].name = calls[c].tool_name}) = 1

\* the last round has been folded and the next reasoning call is due or running
Folded == pc \in {"input", "reasoning"} /\ rounds > 0

RoundCalls == LastReply.tool_calls

TimedOut == outcome \in {Raised(e) : e \in Timeouts(entry)}

RECURSIVE RequestsIn(_, _)
RequestsIn(rs, t) ==
    IF rs = <<>> THEN 0
    ELSE RequestsIn(Tail(rs), t)
         + Cardinality({i \in 1..Len(Head(rs).tool_calls) :
                           Head(rs).tool_calls[i].tool_name = t})

-----------------------------------------------------------------------------
(* Properties *)

\* C1: when the first reasoning response of a run carries no tool requests,
\* run() returns that response's content verbatim, the history is the history
\* the turn started from, the system message if that history was empty, the
\* user message and the assistant message, and no tool was invoked.
C1_DirectAnswer ==
    (pc = "done" /\ Len(replies) = 1 /\ Direct(replies[1])) =>
        /\ outcome = Returned(replies[1].content)
        /\ chat_history = Prepared \o <<AssistantMsg(replies[1].content, <<>>)>>
        /\ \A t \in Catalog : invoked[t] = 0
        /\ rounds = 0

C1_Witness ==
    /\ pc = "done" /\ Len(replies) = 1 /\ Direct(replies[1])
    /\ run_history = <<>>
    /\ Len(chat_history) = 3

\* C2: in a round with N >= 1 requests num_tool_calls is N; while fewer than N
\* results have arrived no tool message of the round is in the history and no
\* reasoning call starts; when the next reasoning call is due, exactly the N
\* tool messages answering the N requests follow the assistant message.
C2_GatherBarrier ==
    /\ pc = "tools" =>
          /\ Len(RoundCalls) >= 1
          /\ num_tool_calls = Len(RoundCalls)
          /\ Len(collected) < num_tool_calls
          /\ Len(tool_events) + Cardinality(in_flight) + Len(result_events)
                + Len(collected) = num_tool_calls
          /\ chat_history[Len(chat_history)] = AiMessage(LastReply)
    /\ Folded =>
          /\ Len(chat_history) > Len(RoundCalls)
          /\ chat_history[Len(chat_history) - Len(RoundCalls)] = AiMessage(LastReply)
          /\ AnswersTo(RoundCalls, LastN(chat_history, Len(RoundCalls)))
          /\ collected = <<>> /\ result_events = <<>>
          /\ tool_events = <<>> /\ in_flight = {}

C2_Witness ==
    pc = "tools" /\ num_tool_calls = 2 /\ Len(collected) = 1 /\ in_flight # {}

\* C3 as stated: run() never raises.
C3_NeverRaises == pc = "done" => outcome.kind = "returned"

\* C3 amended: run() raises only for a missing message or for a timeout; a
\* failure of the reasoning call or of a tool call ends in a returned text.
C3_RaisesOnlyMessageOrTimeout ==
    pc = "done" =>
        \/ outcome.kind = "returned"
        \/ message = NoMessage /\ outcome = Raised(MessageRequired) /\ replies = <<>>
        \/ message # NoMessage /\ TimedOut

C3_Witness ==
    /\ pc = "done" /\ outcome.kind = "returned"
    /\ LastReply.kind = "raises"
    /\ \E l \in adapter_log : l.outcome.kind = "raises"

\* C4: when the reasoning call raises, or extracting the tool requests raises,
\* the turn ends returning the fixed apology, nothing is dispatched and no
\* adapter is invoked in that round.
C4_ReasoningFailure ==
    (pc = "done" /\ replies # <<>> /\ LastReply.kind \in {"raises", "malformed"}) =>
        /\ outcome = Returned(ApologyChat)
        /\ Len(replies) = rounds + 1
        /\ chat_history[Len(chat_history)].role \in {"user", "tool"}
        /\ \A t \in Catalog : invoked[t] = RequestsIn(replies, t)

C4_Witness ==
    pc = "done" /\ replies # <<>> /\ LastReply.kind = "malformed" /\ rounds = 1

\* C5: a call that raises takes no other call of its round with it: every
\* request of the round stays queued, in flight or answered, and once the
\* round is folded every call that succeeded has its message in the history
\* with the content its adapter returned.
C5_Isolation ==
    /\ (pc = "tools" /\ \E l \in adapter_log : l.outcome.kind = "raises") =>
          \A c \in 1..Len(RoundCalls) :
             \/ \E i \in 1..Len(tool_events) : tool_events[i] = RoundCalls[c]
             \/ RoundCalls[c] \in in_flight
             \/ \E i \in 1..Len(result_events) :
                   result_events[i].tool_call_id = RoundCalls[c].tool_id
             \/ \E i \in 1..Len(collected) :
                   collected[i].tool_call_id = RoundCalls[c].tool_id
    /\ Folded =>
          \A l \in adapter_log :
             l.outcome.kind = "ok" =>
                \E i \in (Len(chat_history) - Len(RoundCalls) + 1)..Len(chat_history) :
                   chat_history[i] = ToolMsg(l.call, ToolContent(l.outcome.output))

C5_Witness ==
    /\ Folded
    /\ \E l1, l2 \in adapter_log :
          l1.outcome.kind = "raises" /\ l2.outcome.kind = "ok"

\* C6: a call whose adapter raises yields exactly one tool message, with the
\* error text as content; it is counted and folded like any other, so that
\* the next reasoning call sees it; only a timeout ends the round early.
C6_ToolFailure ==
    /\ Folded =>
          \A l \in adapter_log :
             l.outcome.kind = "raises" =>
                /\ Cardinality({i \in 1..Len(chat_history) :
                                   /\ chat_history[i].role = "tool"
                                   /\ chat_history[i].tool_call_id = l.call.tool_id}) = 1
                /\ \E i \in (Len(chat_history) - Len(RoundCalls) + 1)..Len(chat_history) :
                      chat_history[i] =
                         ToolMsg(l.call, <<"Error executing ", l.call.tool_name, ": ",
                                          AdapterFailure.text>>)
    /\ (pc = "tools" /\ \E l \in adapter_log : l.outcome.kind = "raises") =>
          Len(tool_events) + Cardinality(in_flight) + Len(result_events)
             + Len(collected) = Len(RoundCalls)
    /\ (pc = "done" /\ rounds < Len(replies) - 1) => TimedOut

C6_Witness ==
    /\ pc = "reasoning" /\ rounds = 1
    /\ \E l \in adapter_log : l.outcome.kind = "raises"

\* C7: process_query cuts a history of more than 20 messages down to its
\* leading system message, or to nothing when it does not start with one, so
\* that after prepare_chat the history is a system message and the new user
\* message; a history of 20 or fewer messages goes into the run untouched.
C7_Truncation ==
    /\ (entry = "process_query" /\ pc = "start") =>
          IF Len(start_history) > TruncateThreshold
          THEN IF start_history[1].role = "system"
               THEN chat_history = <<start_history[1]>>
               ELSE chat_history = <<>>
          ELSE chat_history = start_history
    /\ (entry = "process_query" /\ pc = "input" /\ replies = <<>>) =>
          IF Len(start_history) > TruncateThreshold
          THEN /\ Len(chat_history) = 2
               /\ chat_history[1].role = "system"
               /\ start_history[1].role = "system" => chat_history[1] = start_history[1]
               /\ chat_history[2] = UserMsg(message)
          ELSE chat_history =
                  (IF start_history = <<>> THEN <<SystemMsg>> ELSE start_history)
                     \o <<UserMsg(message)>>

C7_Witness ==
    /\ entry = "process_query" /\ pc = "input" /\ replies = <<>>
    /\ Len(start_history) > TruncateThreshold
    /\ start_history[1].role # "system"

\* C8: with a deterministic reasoning client and deterministic tools, a
\* run_query of the query of the run_query just before it returns the same
\* text; reset leaves the history empty whatever it held.
C8_Idempotence ==
    /\ (/\ pc = "done" /\ entry = "run_query" /\ outcome.kind = "returned"
        /\ previous # NoPrevious /\ previous.message = message) =>
          caller_result = previous.result
    /\ (entry = "reset" /\ pc = "idle") => chat_history = <<>>
    /\ (entry = "run_query" /\ pc = "start") => chat_history = <<>>

C8_Witness ==
    /\ pc = "done" /\ entry = "run_query" /\ outcome.kind = "returned"
    /\ previous # NoPrevious /\ previous.message = message
    /\ rounds = 1

OneToolRounds ==
    \A i \in 1..(Len(replies) - 1) :
       replies[i].kind = "message" /\ Len(replies[i].tool_calls) = 1

\* C9: when the reasoning client asks for one tool in each of k rounds and
\* then answers, the history is the prepared history, then k times the
\* assistant request and its tool result, then the final assistant message,
\* whose content run() returns; a reasoning call runs only when every earlier
\* round is folded, with the result of the last round closing the history.
C9_MultiRound ==
    /\ (pc = "done" /\ replies # <<>> /\ Direct(LastReply) /\ OneToolRounds) =>
          LET k == Len(replies) - 1
              base == Len(Prepared)
          IN  /\ rounds = k
              /\ Len(chat_history) = base + 2 * k + 1
              /\ SubSeq(chat_history, 1, base) = Prepared
              /\ \A i \in 1..k :
                    /\ chat_history[base + 2 * i - 1] = AiMessage(replies[i])
                    /\ chat_history[base + 2 * i].role = "tool"
                    /\ chat_history[base + 2 * i].tool_call_id
                          = replies[i].tool_calls[1].tool_id
                    /\ chat_history[base + 2 * i].name
                          = replies[i].tool_calls[1].tool_name
              /\ chat_history[Len(chat_history)] = AiMessage(LastReply)
              /\ outcome = Returned(LastReply.content)
    /\ pc = "reasoning" =>
          /\ Len(replies) = rounds
          /\ rounds > 0 =>
                /\ chat_history[Len(chat_history)].role = "tool"
                /\ \E c \in 1..Len(RoundCalls) :
                      chat_history[Len(chat_history)].tool_call_id
                         = RoundCalls[c].tool_id

C9_Witness ==
    /\ pc = "done" /\ replies # <<>> /\ Direct(LastReply) /\ OneToolRounds
    /\ Len(replies) = 3
    /\ run_history = <<>>

\* requests naming t that call_tool has not taken yet
Queued(t) ==
    Cardinality({i \in 1..Len(ev_tool_calls) : ev_tool_calls[i].tool_name = t})
    + Cardinality({i \in 1..Len(tool_events) : tool_events[i].tool_name = t})

\* C10: an adapter is invoked only for a request that names it, once per
\* request: during a run the invocations of a tool and its requests not yet
\* taken add up to the requests naming it, and when run() returns the two
\* numbers are equal; a run cut off by a timeout has invoked no more.
C10_InvokedAsRequested ==
    \A t \in Catalog :
       /\ invoked[t] <= RequestsIn(replies, t)
       /\ Running => invoked[t] + Queued(t) = RequestsIn(replies, t)
       /\ (pc = "done" /\ outcome.kind = "returned") =>
             invoked[t] = RequestsIn(replies, t)

C10_Witness ==
    /\ pc = "done" /\ outcome.kind = "returned"
    /\ RequestsIn(replies, "sql_tool") = 1
    /\ invoked["sql_tool"] = 1
    /\ invoked["document_tool"] = 0
    /\ rounds = 1


\* wait_for's timer ended the turn of process_query
CallerTimedOut == entry = "process_query" /\ outcome = Raised(CallerTimeout)

C12_EndsOnlyByStop ==
    [][(pc # "done" /\ pc' = "done") =>
          (pc = "reasoning" /\ outcome'.kind = "returned")]_vars

\* C12 amended: a run ends by the stop of the reasoning step with an answer,
\* by the error of a missing message, or by a timeout; a stop after a
\* response without tool requests returns that response's content; and when
\* every queued step runs and every reasoning and tool call comes back, a run
\* that was started ends.
C12_Termination ==
    /\ [][(pc # "done" /\ pc' = "done") =>
             \/ pc = "reasoning" /\ outcome'.kind = "returned"
             \/ pc = "start" /\ message = NoMessage
                   /\ outcome' = Raised(MessageRequired)
             \/ pc \in {"reasoning", "tools"} /\ TimedOut']_vars
    /\ []((pc = "done" /\ replies # <<>> /\ Direct(LastReply)) =>
             outcome = Returned(LastReply.content))
    /\ (Running ~> pc = "done")

C12_Witness ==
    /\ pc = "done" /\ Len(replies) = 3 /\ Direct(LastReply)
    /\ outcome = Returned(LastReply.content)
    /\ rounds = 2


\* C13: a constructor that is given no llm while Settings.llm is not set
\* raises ValueError and leaves no workflow object: nothing was appended,
\* called or run; every workflow that exists has the client it was given,
\* or Settings.llm when it was given none, and never any other.
C13_NoClientNoWorkflow ==
    /\ (pc # "new" /\ ctor.llm = NoLLM /\ ctor.settings = NoLLM) =>
          /\ pc = "failed"
          /\ ctor.error = Raised(LLMRequired)
    /\ pc = "failed" =>
          /\ ctor.llm = NoLLM /\ ctor.settings = NoLLM
          /\ self_llm = NoLLM
          /\ chat_history = <<>> /\ llm_calls = 0 /\ replies = <<>>
    /\ pc \notin {"new", "failed"} =>
          /\ ctor.error = NoOutcome
          /\ self_llm # NoLLM
          /\ self_llm = (IF ctor.llm # NoLLM THEN ctor.llm ELSE ctor.settings)

C13_Witness ==
    /\ pc = "failed"
    /\ ctor = Given(NoLLM, NoLLM, Raised(LLMRequired))


\* the reasoning call of reply came back with a response
Responded(reply) == reply.kind \in {"message", "malformed"}

\* C14: whenever the reasoning call returns a response, the message of that
\* response is in the history when the reasoning step has ended, whether it
\* ended in a stop, in a dispatch or in the failure path.
C14_AppendedUnconditionally ==
    (pc # "idle" /\ pc # "reasoning") =>
        \A i \in 1..Len(replies) :
           Responded(replies[i]) =>
              \E j \in (Len(run_history) + 1)..Len(chat_history) :
                 chat_history[j] = AiMessage(replies[i])


\* the first reasoning call of the turn is due or running
FirstCall == pc \in {"input", "reasoning"} /\ replies = <<>>

\* C15: before the first reasoning call of a turn the history is the history
\* the turn started with, unchanged, then the fixed system message exactly
\* when that history was empty, then the query as a user message, which is
\* the last element.
C15_Preparation ==
    FirstCall =>
        LET n == Len(run_history) IN
        /\ chat_history[Len(chat_history)] = UserMsg(message)
        /\ SubSeq(chat_history, 1, n) = run_history
        /\ run_history = <<>> => chat_history = <<SystemMsg, UserMsg(message)>>
        /\ run_history # <<>> =>
              /\ Len(chat_history) = n + 1
              /\ CountRole(chat_history, "system") = CountRole(run_history, "system")

C15_Witness ==
    /\ FirstCall
    /\ run_history # <<>>
    /\ Len(chat_history) = Len(run_history) + 1


\* the call ids of the tool messages msgs, in their order
CallIds(msgs) == [i \in 1..Len(msgs) |-> msgs[i].tool_call_id]

\* C16: the tool messages a fold appends stand in the order in which the
\* results of the round were produced, whatever the order of the requests.
C16_CompletionOrder ==
    Folded => CallIds(LastN(chat_history, Len(RoundCalls))) = produced

C16_Witness ==
    /\ Folded
    /\ Len(produced) = 2
    /\ produced[1] > produced[2]
    /\ CallIds(LastN(chat_history, 2)) = produced


\* tool messages of h that answer the request call
AnswersOf(h, call) ==
    {i \in 1..Len(h) : h[i].role = "tool" /\ h[i].tool_call_id = call.tool_id}

\* C17: a call that is cancelled in flight yields exactly one tool message,
\* with the fixed content; it is counted and folded with the results of its
\* round, and the cancellation does not leave the step: the run goes on to
\* the next reasoning call and ends as any other run.
C17_ToolCancelled ==
    /\ Folded =>
          \A l \in adapter_log :
             l.outcome.kind = "cancelled" =>
                /\ Cardinality(AnswersOf(chat_history, l.call)) = 1
                /\ \A i \in AnswersOf(chat_history, l.call) :
                      /\ i > Len(chat_history) - Len(RoundCalls)
                      /\ chat_history[i] = ToolMsg(l.call, CancelledTool)
    /\ (pc = "tools" /\ \E l \in adapter_log : l.outcome.kind = "cancelled") =>
          /\ Len(tool_events) + Cardinality(in_flight) + Len(result_events)
                + Len(collected) = num_tool_calls
          /\ \A l \in adapter_log :
                l.outcome.kind = "cancelled" =>
                   Cardinality(AnswersOf(collected \o result_events, l.call)) = 1
    /\ (pc = "done" /\ \E l \in adapter_log : l.outcome.kind = "cancelled") =>
          \/ outcome.kind = "returned" /\ rounds = Len(replies) - 1
          \/ TimedOut

C17_Witness ==
    /\ pc = "done" /\ outcome.kind = "returned" /\ Direct(LastReply)
    /\ \E l \in adapter_log :
          /\ l.outcome.kind = "cancelled"
          /\ \E i \in 1..Len(chat_history) :
                chat_history[i] = ToolMsg(l.call, CancelledTool)


RECURSIVE TotalRequests(_)
TotalRequests(rs) ==
    IF rs = <<>> THEN 0
    ELSE Len(Head(rs).tool_calls) + TotalRequests(Tail(rs))

\* the results of the round that gather has not folded yet
Pending == collected \o result_events

\* C18: in a round every request is in exactly one place, queued, in flight
\* or answered by exactly one pending result, and every pending result
\* answers a request of this round; no result is in the history before the
\* fold; after the fold nothing is pending, the history holds exactly one
\* tool message per request of the round and as many tool messages as the
\* rounds of the run requested, so that the next round starts from nothing.
C18_OneResultOneFold ==
    /\ pc = "tools" =>
          /\ \A c \in 1..Len(RoundCalls) :
                LET call == RoundCalls[c]
                    queued == Cardinality({i \in 1..Len(tool_events) :
                                              tool_events[i] = call})
                    flying == IF call \in in_flight THEN 1 ELSE 0
                IN  /\ queued + flying + Cardinality(AnswersOf(Pending, call)) = 1
                    /\ AnswersOf(chat_history, call) = {}
          /\ \A i \in 1..Len(Pending) :
                \E c \in 1..Len(RoundCalls) :
                   Pending[i].tool_call_id = RoundCalls[c].tool_id
          /\ CountRole(chat_history, "tool") - CountRole(run_history, "tool")
                = TotalRequests(replies) - Len(RoundCalls)
    /\ pc \in {"start", "input", "reasoning", "gather_tools"} =>
          /\ Pending = <<>> /\ in_flight = {} /\ tool_events = <<>>
    /\ Folded =>
          /\ \A c \in 1..Len(RoundCalls) :
                Cardinality(AnswersOf(chat_history, RoundCalls[c])) = 1
          /\ CountRole(chat_history, "tool") - CountRole(run_history, "tool")
                = TotalRequests(replies)

C18_Witness ==
    /\ Folded /\ rounds = 2
    /\ CountRole(chat_history, "tool") = 2


\* m carries the call id and the tool name of a request of the current run
FromRequest(m) ==
    \E i \in 1..Len(replies) :
       \E c \in 1..Len(replies[i].tool_calls) :
          /\ m.tool_call_id = replies[i].tool_calls[c].tool_id
          /\ m.name = replies[i].tool_calls[c].tool_name

\* C19: whatever the outcome of a call, success, cancellation or error, its
\* result is a message of role tool with the call id and the tool name of
\* the request it answers; every tool message the run has pending or has
\* appended to the history carries the call id and tool name of a request
\* the reasoning client issued in this run.
C19_ToolMessageOrigin ==
    (Running \/ pc = "done") =>
        /\ \A i \in 1..Len(Pending) :
              Pending[i].role = "tool" /\ FromRequest(Pending[i])
        /\ \A j \in (Len(run_history) + 1)..Len(chat_history) :
              chat_history[j].role = "tool" => FromRequest(chat_history[j])
        /\ \A l \in adapter_log :
              \A m \in {Pending[i] : i \in 1..Len(Pending)}
                       \cup {chat_history[j] : j \in 1..Len(chat_history)} :
                 (m.role = "tool" /\ m.tool_call_id = l.call.tool_id) =>
                    m.name = l.call.tool_name
        /\ \A l \in adapter_log :
              (Folded \/ pc = "done") => AnswersOf(chat_history, l.call) # {}
                                         \/ (pc = "done" /\ TimedOut)

C19_Witness ==
    /\ Folded
    /\ \E l1, l2 \in adapter_log :
          /\ l1.outcome.kind = "ok"
          /\ l2.outcome.kind \in {"raises", "cancelled"}
          /\ AnswersOf(chat_history, l1.call) # {}
          /\ AnswersOf(chat_history, l2.call) # {}


IsPrefix(s, t) == Len(s) <= Len(t) /\ SubSeq(t, 1, Len(s)) = s

\* C20: every step taken during a run leaves the history as it was or
\* appends to it: the history before the step is a prefix of the history
\* after it, so that no step of the workflow removes, reorders or rewrites a
\* message; only the callers, between runs, cut the history.
C20_AppendOnly ==
    [][Running => IsPrefix(chat_history, chat_history')]_vars

C20_Witness ==
    /\ Folded
    /\ run_history # <<>>
    /\ IsPrefix(run_history, chat_history)
    /\ Len(chat_history) >= Len(run_history) + 3


\* C21: nothing counts the rounds: with a reasoning client that asks for a
\* tool in every round and tools that complete, a run never stops on its
\* own; each round adds the request and its result to the history and is
\* followed by another reasoning call, round after round as far as the
\* model follows, and the only end of the run is a timeout.
C21_NoRoundCap ==
    /\ (pc = "done" /\ message # NoMessage) => TimedOut
    /\ \A i \in 1..Len(replies) :
          replies[i].kind = "message" /\ Len(replies[i].tool_calls) = 1
    /\ (Running /\ pc # "start") =>
          /\ rounds <= Len(replies) /\ Len(replies) <= rounds + 1
          /\ Len(chat_history) = Len(Prepared) + 2 * rounds
                                  + (IF Len(replies) > rounds THEN 1 ELSE 0)

C21_Witness ==
    /\ pc = "reasoning"
    /\ rounds = MaxToolCalls
    /\ Len(chat_history) = 2 + 2 * MaxToolCalls


\* C22: on a workflow constructed with an empty history, whatever turns,
\* resets and truncations it has seen, a history that is not empty starts
\* with a system message and holds no other; a reasoning call is due or
\* running only on such a history.
C22_OneSystemMessage ==
    /\ chat_history # <<>> =>
          /\ chat_history[1].role = "system"
          /\ CountRole(chat_history, "system") = 1
    /\ pc \in {"input", "reasoning"} => chat_history # <<>>

C22_Witness ==
    /\ entry = "process_query"
    /\ Len(start_history) > TruncateThreshold
    /\ pc = "reasoning"
    /\ chat_history = <<SystemMsg, UserMsg(message)>>


\* the assistant message at j of h is followed at once by the tool messages
\* that answer its requests, one each
Answered(h, j) ==
    LET n == Len(h[j].tool_calls) IN
    /\ j + n <= Len(h)
    /\ AnswersTo(h[j].tool_calls, SubSeq(h, j + 1, j + n))

\* C23: in a session of process_query turns, whenever the reasoning client
\* is called, every assistant message of the history that carries tool
\* requests is followed at once by the tool messages answering them.
C23_NoDanglingRequest ==
    pc = "reasoning" =>
        \A j \in 1..Len(chat_history) :
           chat_history[j].tool_calls # <<>> => Answered(chat_history, j)


\* the requests of the round that name no tool of the catalog
Unlisted == {c \in 1..Len(RoundCalls) : RoundCalls[c].tool_name \notin Catalog}

\* m is the tool message reporting the failed lookup of call
LookupError(m, call) ==
    /\ m.role = "tool"
    /\ m.name = call.tool_name
    /\ m.tool_call_id = call.tool_id
    /\ m.content = <<"Error executing ", call.tool_name, ": ", call.tool_name>>

\* msgs holds exactly one message for call, the report of the failed lookup
OneLookupError(msgs, call) ==
    /\ Cardinality(AnswersOf(msgs, call)) = 1
    /\ \A i \in AnswersOf(msgs, call) : LookupError(msgs[i], call)

\* C24: a request naming a tool outside the catalog reaches no adapter and
\* ends no run: once taken from the queue it has exactly one pending tool
\* message, the error report for its call id; the fold puts that message in
\* the history with the results of the round; and the round it belongs to
\* goes on to the next reasoning call unless a timeout ends the run.
C24_UnknownTool ==
    /\ [](pc = "tools" =>
             \A c \in Unlisted :
                /\ RoundCalls[c] \notin in_flight
                /\ \/ \E i \in 1..Len(tool_events) : tool_events[i] = RoundCalls[c]
                   \/ OneLookupError(Pending, RoundCalls[c]))
    /\ [](Folded =>
             \A c \in Unlisted :
                OneLookupError(LastN(chat_history, Len(RoundCalls)), RoundCalls[c]))
    /\ [](outcome.kind = "raised" => outcome.value[1] # "KeyError")
    /\ \A r \in 0..MaxToolCalls :
          (pc = "tools" /\ rounds = r /\ Unlisted # {})
             ~> \/ pc = "reasoning" /\ rounds = r + 1
                \/ pc = "done" /\ TimedOut

C24_Witness ==
    /\ pc = "reasoning" /\ rounds > 0 /\ Unlisted # {}
    /\ \A c \in Unlisted :
          OneLookupError(LastN(chat_history, Len(RoundCalls)), RoundCalls[c])


\* a step of gather: it takes one result from its queue
GatherStep ==
    /\ pc = "tools" /\ pc' # "done"
    /\ result_events # <<>>
    /\ result_events' = Tail(result_events)

\* C25: of the gather invocations of a round, one per result, every one
\* before the last leaves the history and the position of the run alone; the
\* one that completes the count appends the tool messages of the round and
\* emits the one continuation, after which no request, call or result of the
\* round is left to raise another; a run has made one reasoning call more
\* than it has folded rounds while it reasons or runs tools, and as many
\* when a continuation waits.
C25_OneContinuation ==
    /\ [][GatherStep =>
            IF Len(collected) + 1 < num_tool_calls
            THEN /\ chat_history' = chat_history
                 /\ pc' = "tools" /\ rounds' = rounds /\ llm_calls' = llm_calls
                 /\ Len(collected') = Len(collected) + 1
            ELSE /\ Len(collected) + 1 = num_tool_calls
                 /\ Len(chat_history') = Len(chat_history) + num_tool_calls
                 /\ pc' = "input" /\ rounds' = rounds + 1
                 /\ llm_calls' = llm_calls]_vars
    /\ [](pc \in {"input", "reasoning", "gather_tools"} =>
             tool_events = <<>> /\ in_flight = {} /\ Pending = <<>>)
    /\ [](pc \in {"gather_tools", "tools"} => Len(replies) = rounds + 1)
    /\ [](pc \in {"input", "reasoning"} => Len(replies) = rounds)
    /\ [][(pc = "input" /\ pc' = "reasoning") => llm_calls' = llm_calls + 1]_vars

C25_Witness ==
    /\ pc = "reasoning" /\ rounds = 1
    /\ Len(RoundCalls) = MaxToolCalls
    /\ AnswersTo(RoundCalls, LastN(chat_history, MaxToolCalls))


\* the messages of h are those of the turn in progress alone: the system
\* message, the query, then the assistant messages of this turn's replies
\* and tool messages for this turn's requests
OnlyThisQuery(h) ==
    /\ IsPrefix(<<SystemMsg, UserMsg(message)>>, h)
    /\ CountRole(h, "system") = 1 /\ CountRole(h, "user") = 1
    /\ CountRole(h, "assistant") <= Len(replies)
    /\ CountRole(h, "tool") <= TotalRequests(replies)
    /\ \A i \in 3..Len(h) :
          \/ h[i].role = "tool" /\ FromRequest(h[i])
          \/ /\ h[i].role = "assistant"
             /\ \E r \in 1..Len(replies) :
                   replies[r].kind = "message" /\ h[i] = AiMessage(replies[r])

\* C26: run_query runs on a cleared history, whatever the workflow held; it
\* hands back a text in every case, the result of run() or, when run()
\* raised, "Error running query: " with the text of the exception; during
\* and after it the history holds messages of its own query only.
C26_RunQuery ==
    entry = "run_query" =>
        /\ run_history = <<>>
        /\ pc = "start" => chat_history = <<>>
        /\ pc # "start" => OnlyThisQuery(chat_history)
        /\ pc = "done" =>
              /\ caller_result.kind = "returned"
              /\ outcome.kind = "returned" => caller_result = outcome
              /\ outcome.kind = "raised" =>
                    caller_result.value = <<"Error running query: ", outcome.value[2]>>

C26_Witness ==
    /\ entry = "run_query" /\ pc = "done" /\ outcome.kind = "raised"
    /\ caller_result = Returned(<<"Error running query: ", "Operation timed out">>)
    /\ llm_calls >= Len(replies) + 2
    /\ Len(chat_history) > 2

=============================================================================
